---- MODULE Spec2Model ----
(***************************************************************************)
(* A model of webgl-particles.js: the frame loop (drawScene), the input    *)
(* handlers of main, the clamped interpolator (clamp, lerp), the rejection *)
(* sampler (generatePointsInSphere) and the 3x3 matrix helpers (m3).       *)
(*                                                                         *)
(* JavaScript Numbers are modelled as exact rationals n/d in lowest terms, *)
(* together with the two non-numeric values the program can produce:       *)
(* NaN and undefined.  Floating-point rounding is not modelled.            *)
(***************************************************************************)
EXTENDS Integers, Sequences, FiniteSets, TLC

VARIABLES
  \* ---- main(): closure state of the page
  canvas,        \* <<width, height>> of the canvas, fixed by the page
  now,           \* performance.now(), in milliseconds
  mouseX, mouseY,
  radius, wantedRadius, lerpStart,
  colorMode,
  squaresData,   \* sequence of [x, y, rotation, scaleX, scaleY]
  \* ---- what the step just taken computed and emitted; a step that is not a
  \*      drawScene call computes and draws nothing
  newRadius,     \* the const newRadius of the drawScene call (line 147)
  spherePoints,  \* the const spherePoints of the drawScene call (line 148)
  drawn,         \* the draw calls the step issued, one per square
  started,       \* main() has made its call of drawScene (line 214)
  pending,       \* animation frames requested and not yet run
  \* ---- one call of generatePointsInSphere, statement by statement
  sCenter, sRadius, sNumPoints, points, draws, spc,
  \* ---- one composition of the per-square matrix
  mIn, mOut

vars == <<canvas, now, mouseX, mouseY, radius, wantedRadius, lerpStart,
          colorMode, squaresData, newRadius, spherePoints, drawn, started,
          pending, sCenter, sRadius, sNumPoints, points, draws, spc,
          mIn, mOut>>

mainVars == <<canvas, now, mouseX, mouseY, radius, wantedRadius, lerpStart,
              colorMode, squaresData, newRadius, spherePoints, drawn, started,
              pending>>

sphereVars == <<sCenter, sRadius, sNumPoints, points, draws, spc>>

matrixVars == <<mIn, mOut>>

\* ------------------------------------------------------------------ bounds

\* numberOfSquares is 100 in the source (line 111); the model runs the same
\* loops over this many squares.
numberOfSquares == 1

\* The clock is not followed beyond this many milliseconds.
MaxNow == 300

\* Largest numPoints of a modelled generatePointsInSphere call.
MaxCount == 5

\* Loop iterations of one generatePointsInSphere call before it is cut off.
MaxDraws == 7

\* ------------------------------------------------- JavaScript Number values

RECURSIVE GCD(_, _)
GCD(a, b) == IF b = 0 THEN a ELSE GCD(b, a % b)

Abs(n) == IF n < 0 THEN -n ELSE n

\* The rational n/d (d # 0) in lowest terms with a positive denominator.
Rat(n, d) ==
  IF d = 1
  THEN [t |-> "num", n |-> n, d |-> 1]
  ELSE LET g == GCD(Abs(n), Abs(d))
           s == IF d < 0 THEN -1 ELSE 1
       IN [t |-> "num", n |-> s * (n \div g), d |-> s * (d \div g)]

Num(n) == [t |-> "num", n |-> n, d |-> 1]

NaN == [t |-> "nan", n |-> 0, d |-> 1]

Undefined == [t |-> "undef", n |-> 0, d |-> 1]

IsNum(v) == v.t = "num"

\* a + b, a - b, a * b: NaN when an operand is NaN or undefined.
Add(a, b) ==
  IF IsNum(a) /\ IsNum(b) THEN Rat(a.n * b.d + b.n * a.d, a.d * b.d) ELSE NaN

Sub(a, b) ==
  IF IsNum(a) /\ IsNum(b) THEN Rat(a.n * b.d - b.n * a.d, a.d * b.d) ELSE NaN

Mul(a, b) ==
  IF IsNum(a) /\ IsNum(b) THEN Rat(a.n * b.n, a.d * b.d) ELSE NaN

\* a / b for b # 0.
Div(a, b) ==
  IF IsNum(a) /\ IsNum(b) THEN Rat(a.n * b.d, a.d * b.n) ELSE NaN

\* a > b: false when an operand is NaN or undefined.
Gt(a, b) == IsNum(a) /\ IsNum(b) /\ a.n * b.d > b.n * a.d

\* Math.max(a, b), Math.min(a, b): NaN when an operand is NaN.
MathMax(a, b) ==
  IF IsNum(a) /\ IsNum(b) THEN (IF Gt(b, a) THEN b ELSE a) ELSE NaN

MathMin(a, b) ==
  IF IsNum(a) /\ IsNum(b) THEN (IF Gt(a, b) THEN b ELSE a) ELSE NaN

\* The values Math.random() returns in the model, a subset of [0, 1).
RandomValues == {Rat(0, 1), Rat(1, 2)}

\* ------------------------------------------------------------ clamp / lerp

\* Lines 217-219.
clamp(x, min, max) == MathMin(MathMax(x, min), max)

\* lerp without the clamp of line 222.
lerpNoClamp(a, b, alpha) == Add(a, Mul(alpha, Sub(b, a)))

\* Lines 221-225.
lerp(a, b, alpha) ==
  LET alpha1 == clamp(alpha, Num(0), Num(1))
  IN Add(a, Mul(alpha1, Sub(b, a)))

\* --------------------------------------------------- generatePointsInSphere

\* Lines 234-243: the candidate built from three Math.random() results.
Candidate(center, r, rx, ry, rz) ==
  LET x == Mul(Sub(Mul(rx, Num(2)), Num(1)), r)
      y == Mul(Sub(Mul(ry, Num(2)), Num(1)), r)
      z == Mul(Sub(Mul(rz, Num(2)), Num(1)), r)
  IN [x |-> Add(center.x, x), y |-> Add(center.y, y), z |-> Add(center.z, z)]

Sq(v) == Mul(v, v)

\* Squared distance as line 246 computes it.
Dist2(point, center) ==
  Add(Add(Sq(Sub(point.x, center.x)), Sq(Sub(point.y, center.y))),
      Sq(Sub(point.z, center.z)))

\* The condition of line 246 without its z term.
RejectedFlat(point, center, r) ==
  Gt(Add(Sq(Sub(point.x, center.x)), Sq(Sub(point.y, center.y))), Sq(r))

\* The condition of line 246 with >= in place of >.
RejectedOnBoundary(point, center, r) ==
  IsNum(Dist2(point, center)) /\ IsNum(r) /\ ~Gt(Sq(r), Dist2(point, center))

\* The do-while condition of line 246: true when the candidate is redrawn.
Rejected(point, center, r) == Gt(Dist2(point, center), Sq(r))

\* The points one pass of the do-while loop can leave in `point`.
AcceptedPoints(center, r) ==
  {p \in {Candidate(center, r, rx, ry, rz) :
            rx \in RandomValues, ry \in RandomValues, rz \in RandomValues} :
     ~Rejected(p, center, r)}

\* The sequences a call can return.
generatePointsInSphere(center, r, numPoints) ==
  [1..numPoints -> AcceptedPoints(center, r)]

\* The calls of generatePointsInSphere that are explored statement by statement.
SphereCenters ==
  {[x |-> Num(0), y |-> Num(0), z |-> Num(0)],
   [x |-> Num(40), y |-> Num(30), z |-> Num(0)]}

SphereRadii == {Num(0), Num(50), Rat(175, 2)}

Point0 == [x |-> Num(0), y |-> Num(0), z |-> Num(0)]

IdleMain ==
  /\ canvas = <<300, 150>>
  /\ now = 0
  /\ mouseX = Num(0) /\ mouseY = Num(0)
  /\ radius = Num(50) /\ wantedRadius = Undefined /\ lerpStart = Undefined
  /\ colorMode = FALSE
  /\ squaresData = <<>>
  /\ newRadius = Undefined
  /\ spherePoints = <<>>
  /\ drawn = <<>>
  /\ started = FALSE /\ pending = 0

IdleSphere ==
  /\ sCenter = Point0 /\ sRadius = Num(0) /\ sNumPoints = 0
  /\ points = <<>> /\ draws = 0 /\ spc = "idle"

IdleMatrix == mIn = <<>> /\ mOut = <<>>

SphereInit ==
  /\ sCenter \in SphereCenters
  /\ sRadius \in SphereRadii
  /\ sNumPoints \in 0..MaxCount
  /\ points = <<>>
  /\ draws = 0
  /\ spc = "loop"
  /\ IdleMain /\ IdleMatrix

\* One pass of the do-while body (lines 232-246), followed by the push of
\* line 248 when the candidate is accepted.
SphereIterate ==
  /\ spc = "loop"
  /\ Len(points) < sNumPoints
  /\ draws < MaxDraws
  /\ \E rx \in RandomValues, ry \in RandomValues, rz \in RandomValues :
       LET point == Candidate(sCenter, sRadius, rx, ry, rz)
       IN points' = IF Rejected(point, sCenter, sRadius)
                    THEN points
                    ELSE Append(points, point)
  /\ draws' = draws + 1
  /\ UNCHANGED <<sCenter, sRadius, sNumPoints, spc>>
  /\ UNCHANGED mainVars /\ UNCHANGED matrixVars

\* Line 251: the for loop has run numPoints times.
SphereReturn ==
  /\ spc = "loop"
  /\ Len(points) = sNumPoints
  /\ spc' = "done"
  /\ UNCHANGED <<sCenter, sRadius, sNumPoints, points, draws>>
  /\ UNCHANGED mainVars /\ UNCHANGED matrixVars

SphereNext == SphereIterate \/ SphereReturn

SpecSphere == SphereInit /\ [][SphereNext]_vars

\* ----------------------------------------------------------------------- m3

\* Angles are whole numbers q of quarter turns (q * pi / 2 radians), for which
\* the exact cosine and sine are rational.
MathCos(q) == Num(CASE q % 4 = 0 -> 1 [] q % 4 = 1 -> 0 [] q % 4 = 2 -> -1 [] OTHER -> 0)

MathSin(q) == Num(CASE q % 4 = 0 -> 0 [] q % 4 = 1 -> 1 [] q % 4 = 2 -> 0 [] OTHER -> -1)

\* A matrix is the 9-element array of the source; a[k] there is a[k + 1] here.
m3_projection(width, height) ==
  <<Div(Num(2), width), Num(0), Num(0),
    Num(0), Div(Num(-2), height), Num(0),
    Num(-1), Num(1), Num(1)>>

m3_translation(tx, ty) ==
  <<Num(1), Num(0), Num(0),
    Num(0), Num(1), Num(0),
    tx, ty, Num(1)>>

m3_rotation(angleInRadians) ==
  LET c == MathCos(angleInRadians)
      s == MathSin(angleInRadians)
  IN <<c, Sub(Num(0), s), Num(0),
       s, c, Num(0),
       Num(0), Num(0), Num(1)>>

m3_scaling(sx, sy) ==
  <<sx, Num(0), Num(0),
    Num(0), sy, Num(0),
    Num(0), Num(0), Num(1)>>

Sum3(p, q, r) == Add(Add(p, q), r)

\* m3.multiply with the roles of a and b exchanged.
m3_multiplySwapped(a, b) ==
  LET A(i, j) == a[i * 3 + j + 1]
      B(i, j) == b[i * 3 + j + 1]
      E(i, j) == Sum3(Mul(A(i, 0), B(0, j)), Mul(A(i, 1), B(1, j)),
                      Mul(A(i, 2), B(2, j)))
  IN <<E(0, 0), E(0, 1), E(0, 2),
       E(1, 0), E(1, 1), E(1, 2),
       E(2, 0), E(2, 1), E(2, 2)>>

\* Lines 290-320: entry (i, j) is the sum over k of b[i][k] * a[k][j].
m3_multiply(a, b) ==
  LET A(i, j) == a[i * 3 + j + 1]
      B(i, j) == b[i * 3 + j + 1]
      E(i, j) == Sum3(Mul(B(i, 0), A(0, j)), Mul(B(i, 1), A(1, j)),
                      Mul(B(i, 2), A(2, j)))
  IN <<E(0, 0), E(0, 1), E(0, 2),
       E(1, 0), E(1, 1), E(1, 2),
       E(2, 0), E(2, 1), E(2, 2)>>

\* Lines 171-179: projection -> translation -> rotation -> scale.
SquareMatrix(width, height, tx, ty, rotationInRadians, scaleX, scaleY) ==
  LET projectionMatrix == m3_projection(width, height)
      translationMatrix == m3_translation(tx, ty)
      rotationMatrix == m3_rotation(rotationInRadians)
      scaleMatrix == m3_scaling(scaleX, scaleY)
      matrix1 == m3_multiply(projectionMatrix, translationMatrix)
      matrix2 == m3_multiply(matrix1, rotationMatrix)
  IN m3_multiply(matrix2, scaleMatrix)

\* GLSL mat3 * vec3 for a mat3 uploaded by uniformMatrix3fv(location, false, m):
\* the array is read column by column.
MatVec(m, v) ==
  <<Sum3(Mul(m[1], v[1]), Mul(m[4], v[2]), Mul(m[7], v[3])),
    Sum3(Mul(m[2], v[1]), Mul(m[5], v[2]), Mul(m[8], v[3])),
    Sum3(Mul(m[3], v[1]), Mul(m[6], v[2]), Mul(m[9], v[3]))>>

\* Line 16: (u_matrix * vec3(a_position, 1)).xy
VertexShader(u_matrix, a_position) ==
  LET r == MatVec(u_matrix, <<a_position[1], a_position[2], Num(1)>>)
  IN <<r[1], r[2]>>

\* The inputs of the compositions that are explored.
MatrixViewports == {<<Num(800), Num(600)>>, <<Num(300), Num(150)>>}

MatrixTranslations == {<<Num(5), Num(5)>>, <<Num(0), Num(0)>>, <<Num(-3), Rat(7, 2)>>}

MatrixAngles == {0, 1, 2, 3}

MatrixScales == {<<Num(2), Num(1)>>, <<Num(1), Num(1)>>, <<Rat(1, 2), Num(3)>>}

MatrixPositions == {<<Num(1), Num(0)>>, <<Num(0), Num(1)>>, <<Num(2), Num(-3)>>}

MatrixInit ==
  /\ mIn \in [viewport : MatrixViewports, translation : MatrixTranslations,
              rotation : MatrixAngles, scale : MatrixScales,
              position : MatrixPositions]
  /\ mOut = <<>>
  /\ IdleMain /\ IdleSphere

\* The matrix of lines 171-179 and the vertex the shader makes of a position.
MatrixCompose ==
  /\ mOut = <<>>
  /\ LET matrix == SquareMatrix(mIn.viewport[1], mIn.viewport[2],
                                mIn.translation[1], mIn.translation[2],
                                mIn.rotation, mIn.scale[1], mIn.scale[2])
     IN mOut' = <<matrix, VertexShader(matrix, mIn.position)>>
  /\ UNCHANGED mIn
  /\ UNCHANGED mainVars /\ UNCHANGED sphereVars

MatrixNext == MatrixCompose

SpecMatrix == MatrixInit /\ [][MatrixNext]_vars

\* ------------------------------------------------------------------- main()

\* A step that is not a drawScene call draws nothing.
NoDraw == newRadius' = Undefined /\ spherePoints' = <<>> /\ drawn' = <<>>

squareWidth == 5

squareHeight == 5

maxOffset == Rat(1, 2)

\* Canvas sizes (gl.canvas.width, gl.canvas.height) the page may have.
CanvasSizes == {<<300, 150>>}

\* Pointer positions relative to the canvas that a mousemove may report.
MousePositions == {<<Num(0), Num(0)>>, <<Num(40), Num(30)>>}

\* event.button of a mouse event: 0 is the left button.
Buttons == {0, 2}

\* event.key of a keydown event.
Keys == {"c", "x"}

\* Milliseconds that may pass between two steps of the page.
TimeSteps == {100}

\* Lines 115-126.
InitSquares ==
  [1..numberOfSquares ->
     {[x |-> Mul(Mul(Num(canvas[1]), rx), maxOffset),
       y |-> Mul(Mul(Num(canvas[2]), ry), maxOffset),
       rotation |-> 0, scaleX |-> Num(1), scaleY |-> Num(1)] :
        rx \in RandomValues, ry \in RandomValues}]

\* The state when main() reaches line 214, before its call of drawScene.
Init ==
  /\ canvas \in CanvasSizes
  /\ now = 0
  /\ mouseX = Num(0) /\ mouseY = Num(0)
  /\ radius = Num(50) /\ wantedRadius = Undefined /\ lerpStart = Undefined
  /\ colorMode = FALSE
  /\ squaresData \in InitSquares
  /\ newRadius = Undefined
  /\ spherePoints = <<>>
  /\ drawn = <<>>
  /\ started = FALSE /\ pending = 0
  /\ IdleSphere /\ IdleMatrix

\* Line 147.
RadiusAt(t) == lerp(radius, wantedRadius, Mul(Sub(Num(t), lerpStart), Rat(5, 1000)))

\* The six vertices of a square at the origin, whatever x and y are.
TrianglesAtOrigin(x, y) ==
  <<<<Num(0), Num(0)>>, <<Num(squareWidth), Num(0)>>, <<Num(0), Num(squareHeight)>>,
    <<Num(squareWidth), Num(0)>>, <<Num(squareWidth), Num(squareHeight)>>,
    <<Num(0), Num(squareHeight)>>>>

\* Lines 162-165 and setTriangles: the six vertices uploaded for a square at (x, y).
Triangles(x, y) ==
  LET x1 == Add(x, Num(squareWidth))
      y1 == Add(y, Num(squareHeight))
  IN <<<<x, y>>, <<x1, y>>, <<x, y1>>,
       <<x1, y>>, <<x1, y1>>, <<x, y1>>>>

\* Lines 158-159: the square with its position replaced.
MovedSquare(square, point) ==
  [square EXCEPT !.x = Mul(point.x, Rat(1, 2)), !.y = Mul(point.y, Rat(1, 2))]

\* The draw call of a square whose x, y, rotation and scale were read as given:
\* the vertices uploaded by setTriangles (line 168), the factors handed to m3
\* (lines 172-174; their product with the projection is SquareMatrix) and the
\* colour of line 186 and the vertex count of drawArrays (line 192).
DrawCall(x, y, rotationInRadians, scaleX, scaleY, color) ==
  [vertices |-> Triangles(x, y),
   translation |-> <<x, y>>,
   rotation |-> rotationInRadians,
   scale |-> <<scaleX, scaleY>>,
   color |-> color,
   count |-> 6]

\* The values Math.random() returns for a colour channel in the model: one
\* value, so that the colours add no states.
ColorRandomValues == {Rat(1, 2)}

\* Line 185: the colours a draw call can get.
Colors ==
  IF colorMode
  THEN {<<r, g, b, Num(1)>> :
          r \in ColorRandomValues, g \in ColorRandomValues, b \in ColorRandomValues}
  ELSE {<<Num(1), Num(1), Num(1), Num(1)>>}

\* Lines 153-192 but for 158-159: the draw call of one square, `color` being
\* the colour line 185 chose.  Line 153 reads x, y and the rest from
\* squaresData[i] before lines 158-159 overwrite the position there.
DrawSquare(square, color) ==
  LET x == square.x
      y == square.y
      rotationInRadians == square.rotation
      scaleX == square.scaleX
      scaleY == square.scaleY
  IN DrawCall(x, y, rotationInRadians, scaleX, scaleY, color)

\* Two requests where line 195 makes one.
requestTwice(n) == n + 2

\* Line 195.
requestAnimationFrame(n) == n + 1

\* drawScene with lines 158-159 moved before the read of line 153.
drawSceneUpdateFirst ==
  /\ ~started \/ pending > 0
  /\ newRadius' = RadiusAt(now)
  /\ \E pts \in generatePointsInSphere([x |-> mouseX, y |-> mouseY, z |-> Num(0)],
                                       RadiusAt(now), numberOfSquares) :
       /\ spherePoints' = pts
       /\ squaresData' = [i \in 1..numberOfSquares |-> MovedSquare(squaresData[i], pts[i])]
       /\ \E colors \in [1..numberOfSquares -> Colors] :
            drawn' = [i \in 1..numberOfSquares |->
                        DrawSquare(MovedSquare(squaresData[i], pts[i]), colors[i])]
  /\ started' = TRUE
  /\ pending' = IF started THEN pending ELSE pending + 1
  /\ UNCHANGED <<canvas, now, mouseX, mouseY, radius, wantedRadius, lerpStart, colorMode>>
  /\ UNCHANGED <<sCenter, sRadius, sNumPoints, points, draws, spc, mIn, mOut>>

\* drawScene, lines 128-196: called by main (line 214) and then as the
\* callback of a requested animation frame, which that call uses up.  The
\* draw calls are those of the squares as they were when the call began.
drawScene ==
  /\ ~started \/ pending > 0
  /\ newRadius' = RadiusAt(now)
  /\ \E colors \in [1..numberOfSquares -> Colors] :
       drawn' = [i \in 1..numberOfSquares |-> DrawSquare(squaresData[i], colors[i])]
  /\ \E pts \in generatePointsInSphere([x |-> mouseX, y |-> mouseY, z |-> Num(0)],
                                       RadiusAt(now), numberOfSquares) :
       /\ spherePoints' = pts
       /\ squaresData' = [i \in 1..numberOfSquares |-> MovedSquare(squaresData[i], pts[i])]
  /\ started' = TRUE
  /\ pending' = requestAnimationFrame(IF started THEN pending - 1 ELSE pending)
  /\ UNCHANGED <<canvas, now, mouseX, mouseY, radius, wantedRadius, lerpStart, colorMode>>
  /\ UNCHANGED sphereVars /\ UNCHANGED matrixVars

\* Lines 77-81.
mousemove ==
  /\ started
  /\ \E p \in MousePositions : mouseX' = p[1] /\ mouseY' = p[2]
  /\ UNCHANGED <<canvas, now, radius, wantedRadius, lerpStart, colorMode, squaresData,
                 started, pending>>
  /\ NoDraw
  /\ UNCHANGED sphereVars /\ UNCHANGED matrixVars

\* Lines 85-92.
mousedown ==
  /\ started
  /\ \E button \in Buttons :
       IF button = 0
       THEN /\ radius' = Num(50)
            /\ wantedRadius' = Num(200)
            /\ lerpStart' = Num(now)
       ELSE UNCHANGED <<radius, wantedRadius, lerpStart>>
  /\ UNCHANGED <<canvas, now, mouseX, mouseY, colorMode, squaresData,
                 started, pending>>
  /\ NoDraw
  /\ UNCHANGED sphereVars /\ UNCHANGED matrixVars

\* Lines 93-100.
mouseup ==
  /\ started
  /\ \E button \in Buttons :
       IF button = 0
       THEN /\ radius' = Num(200)
            /\ wantedRadius' = Num(50)
            /\ lerpStart' = Num(now)
       ELSE UNCHANGED <<radius, wantedRadius, lerpStart>>
  /\ UNCHANGED <<canvas, now, mouseX, mouseY, colorMode, squaresData,
                 started, pending>>
  /\ NoDraw
  /\ UNCHANGED sphereVars /\ UNCHANGED matrixVars

\* Lines 104-108.
keydown ==
  /\ started
  /\ \E key \in Keys : colorMode' = IF key = "c" THEN ~colorMode ELSE colorMode
  /\ UNCHANGED <<canvas, now, mouseX, mouseY, radius, wantedRadius, lerpStart,
                 squaresData, started, pending>>
  /\ NoDraw
  /\ UNCHANGED sphereVars /\ UNCHANGED matrixVars

\* Time passes between two handlers: performance.now() is monotonic.
Advance ==
  /\ started
  /\ \E dt \in TimeSteps : now + dt <= MaxNow /\ now' = now + dt
  /\ UNCHANGED <<canvas, mouseX, mouseY, radius, wantedRadius, lerpStart, colorMode,
                 squaresData, started, pending>>
  /\ NoDraw
  /\ UNCHANGED sphereVars /\ UNCHANGED matrixVars

Next == drawScene \/ mousemove \/ mousedown \/ mouseup \/ keydown \/ Advance

Spec == Init /\ [][Next]_vars

\* ------------------------------------------------------------------ claims

\* a <= b on numbers; false when an operand is NaN or undefined.
Le(a, b) == IsNum(a) /\ IsNum(b) /\ a.n * b.d <= b.n * a.d

\* The step just taken was a drawScene call.
Drew == drawn # <<>>

\* C1: a drawScene call made while wantedRadius and lerpStart have never been
\* assigned (no left mouse button event yet) computes the radius 50.
C1_RadiusDefaults ==
  (Drew /\ wantedRadius = Undefined /\ lerpStart = Undefined) => newRadius = Num(50)

\* C2: a left mousedown or mouseup that arrives while the interpolator yields
\* a number restarts the transition from that number: the radius a drawScene
\* call would compute at the instant of the event is the same right after the
\* event as right before it.
C2_RestartFromCurrent ==
  [][(<<radius, wantedRadius, lerpStart>>' # <<radius, wantedRadius, lerpStart>>
        /\ IsNum(RadiusAt(now)))
       => RadiusAt(now)' = RadiusAt(now)]_vars

\* C3: every square always has a finite position and non-negative scale
\* components.
C3_FinitePositions ==
  \A i \in DOMAIN squaresData :
    /\ IsNum(squaresData[i].x) /\ IsNum(squaresData[i].y)
    /\ Le(Num(0), squaresData[i].scaleX) /\ Le(Num(0), squaresData[i].scaleY)

\* C4: while the last mouse button event is a left mousedown at time t0, a
\* drawScene call at time t computes 50 + 150 * (t - t0) / 200 up to
\* t0 + 200 ms (50 at t0, 125 at t0 + 100) and exactly 200 from then on.
C4_DownTransition ==
  (Drew /\ radius = Num(50) /\ wantedRadius = Num(200) /\ IsNum(lerpStart)) =>
    LET elapsed == now - lerpStart.n
    IN /\ elapsed >= 0
       /\ elapsed = 0 => newRadius = Num(50)
       /\ elapsed = 100 => newRadius = Num(125)
       /\ elapsed < 200 => newRadius = Rat(200 + 3 * elapsed, 4)
       /\ elapsed >= 200 => newRadius = Num(200)

C4_Witness ==
  /\ Drew /\ radius = Num(50) /\ wantedRadius = Num(200)
  /\ IsNum(lerpStart) /\ now - lerpStart.n = 100
  /\ newRadius = Num(125)

\* C5: a call with radius >= 0 that returns, returns exactly numPoints points,
\* each at squared distance at most radius^2 from the center.
C5_SphereContainment ==
  (spc = "done" /\ Le(Num(0), sRadius)) =>
    /\ Len(points) = sNumPoints
    /\ \A k \in 1..Len(points) :
         Le(Add(Add(Sq(Sub(points[k].x, sCenter.x)), Sq(Sub(points[k].y, sCenter.y))),
                Sq(Sub(points[k].z, sCenter.z))),
            Sq(sRadius))

C5_Witness ==
  /\ spc = "done" /\ Gt(sRadius, Num(0)) /\ sNumPoints >= 3
  /\ draws > sNumPoints
  /\ \E k \in 1..Len(points) : points[k] # sCenter

\* C6: with radius 0 every pass of the rejection loop accepts its candidate,
\* so the call takes one pass per point, and every point is the center.
C6_RadiusZero ==
  sRadius = Num(0) =>
    /\ draws = Len(points)
    /\ \A k \in 1..Len(points) : points[k] = sCenter
    /\ spc = "done" => (Len(points) = sNumPoints /\ draws = sNumPoints)

C6_Witness ==
  /\ spc = "done" /\ sRadius = Num(0) /\ sCenter = Point0
  /\ draws = 5
  /\ points = <<Point0, Point0, Point0, Point0, Point0>>

\* C7: the matrix folded as multiply(multiply(multiply(P, T), R), S) sends a
\* position, in the vertex shader, where scaling, then rotation, then
\* translation, then projection send it.
C7_CompositionOrder ==
  mOut # <<>> =>
    LET P == m3_projection(mIn.viewport[1], mIn.viewport[2])
        T == m3_translation(mIn.translation[1], mIn.translation[2])
        R == m3_rotation(mIn.rotation)
        S == m3_scaling(mIn.scale[1], mIn.scale[2])
        v == <<mIn.position[1], mIn.position[2], Num(1)>>
        w == MatVec(P, MatVec(T, MatVec(R, MatVec(S, v))))
    IN mOut[2] = <<w[1], w[2]>>

C7_Witness ==
  /\ mOut # <<>>
  /\ mIn.viewport = <<Num(800), Num(600)>>
  /\ mIn.translation = <<Num(5), Num(5)>>
  /\ mIn.rotation = 1
  /\ mIn.scale = <<Num(2), Num(1)>>
  /\ mIn.position = <<Num(1), Num(0)>>
  /\ mOut[2] = <<Rat(-79, 80), Rat(99, 100)>>

\* C8 as stated: every draw call carries the same six vertices, those of a
\* 5x5 square at the origin, whatever the position of its square.
C8_VerticesAtOrigin ==
  \A i \in DOMAIN drawn :
    drawn[i].vertices =
      <<<<Num(0), Num(0)>>, <<Num(5), Num(0)>>, <<Num(0), Num(5)>>,
        <<Num(5), Num(0)>>, <<Num(5), Num(5)>>, <<Num(0), Num(5)>>>>

\* C8 as amended: every draw call carries the six vertices of a 5x5 square
\* whose corner is the position (x, y) that is also the translation of the
\* transform: (x, y), (x+5, y), (x, y+5), (x+5, y), (x+5, y+5), (x, y+5).
C8_VerticesAtPosition ==
  \A i \in DOMAIN drawn :
    LET x == drawn[i].translation[1]
        y == drawn[i].translation[2]
        x5 == Add(x, Num(5))
        y5 == Add(y, Num(5))
    IN /\ drawn[i].count = 6
       /\ Len(drawn[i].vertices) = 6
       /\ drawn[i].vertices =
            <<<<x, y>>, <<x5, y>>, <<x, y5>>, <<x5, y>>, <<x5, y5>>, <<x, y5>>>>

C8_Witness ==
  /\ Drew
  /\ IsNum(drawn[1].translation[1]) /\ drawn[1].translation[1] # Num(0)
  /\ IsNum(newRadius)
  /\ drawn[1].vertices[1] = drawn[1].translation

\* C9: a drawScene call draws every square at the position the square held
\* when the call began, and leaves in the square half the x and y of the point
\* sampled for it in this call, which the next call is the first to draw.
C9_DrawsStalePosition ==
  [][drawn' # <<>> =>
       \A i \in 1..numberOfSquares :
         /\ drawn'[i].translation = <<squaresData[i].x, squaresData[i].y>>
         /\ drawn'[i].vertices[1] = <<squaresData[i].x, squaresData[i].y>>
         /\ squaresData'[i].x = Mul(spherePoints'[i].x, Rat(1, 2))
         /\ squaresData'[i].y = Mul(spherePoints'[i].y, Rat(1, 2))]_vars

C9_Witness ==
  /\ Drew
  /\ IsNum(newRadius)
  /\ IsNum(drawn[1].translation[1]) /\ IsNum(squaresData[1].x)
  /\ drawn[1].translation # <<squaresData[1].x, squaresData[1].y>>
  /\ squaresData[1].x = Mul(spherePoints[1].x, Rat(1, 2))

\* C10: a drawScene call leaves mouseX, mouseY, colorMode, radius,
\* wantedRadius and lerpStart as they were, and requests exactly one further
\* animation frame.
C10_StimuliReadOnly ==
  [][drawn' # <<>> =>
       /\ UNCHANGED <<mouseX, mouseY, colorMode, radius, wantedRadius, lerpStart>>
       /\ pending' = (IF started THEN pending - 1 ELSE pending) + 1]_vars

C10_Witness ==
  /\ Drew
  /\ mouseX = Num(40) /\ mouseY = Num(30)
  /\ colorMode
  /\ radius = Num(200) /\ wantedRadius = Num(50) /\ lerpStart = Num(100)
  /\ pending = 1

====
